---- MODULE Spec2Model ----
(***************************************************************************)
(* Model of r2/r2/controllers/api_docs.py: the api_doc decorator that      *)
(* attaches documentation metadata to controller functions, the collector  *)
(* ApidocsController.docs_from_controller and the merge of GET_docs.       *)
(*                                                                         *)
(* Python strings are sequences of tokens (a token is a TLA+ string), so   *)
(* that partition, join, startswith and the extension suffix are computed. *)
(* A dict is a function from its keys to its values.  A dict that the code *)
(* shares by reference (a function's _api_doc, the value of 'extends') is  *)
(* named by the function that owns it, and read through the variable       *)
(* _api_doc at the time of the read.                                       *)
(***************************************************************************)
EXTENDS Integers, Sequences, FiniteSets, TLC

VARIABLES
    program,          \* the controllers' functions and the decorator calls of the code base
    dict_order,       \* class -> order in which controller.__dict__.iteritems() yields its functions
    module_order,     \* order in which vars(listingcontroller).iteritems() yields its names
    _api_doc,         \* function -> its _api_doc dict; a function outside the domain has no such attribute
    attached_from,    \* history: function -> the function its 'extends' named and that one's dict at that time
    raised,           \* the exception the last call raised, or "none"
    api_docs,         \* the index built by the last GET_docs
    partial_docs,     \* history: class -> what docs_from_controller returned in the last GET_docs
    merged,           \* history: function -> the docs dict the last GET_docs filed for it
    fresh,            \* GET_docs has run and no decorator was applied since
    reran,            \* the last GET_docs ran while fresh
    attaches          \* number of decorator applications so far

vars == <<program, dict_order, module_order, _api_doc, attached_from, raised,
          api_docs, partial_docs, merged, fresh, reran, attaches>>

(* the most decorator applications the model follows *)
MaxAttach == 4

----------------------------------------------------------------------------
(* dicts *)

EmptyDict == [k \in {} |-> {}]

Update(d, e) == [k \in DOMAIN d \cup DOMAIN e |-> IF k \in DOMAIN e THEN e[k] ELSE d[k]]

SetItem(d, k, v) == [x \in DOMAIN d \cup {k} |-> IF x = k THEN v ELSE d[x]]

DelItem(d, k) == [x \in DOMAIN d \ {k} |-> d[x]]

Get(d, k, default) == IF k \in DOMAIN d THEN d[k] ELSE default

----------------------------------------------------------------------------
(* the section registry *)

section_info ==
    {"account", "flair", "links_and_comments", "messages", "moderation",
     "misc", "listings", "search", "subreddits", "users"}

----------------------------------------------------------------------------
(* controllers and their functions *)

ApiController == <<"Api", "Controller">>
ApiminimalController == <<"Apiminimal", "Controller">>
FrontController == <<"Front", "Controller">>
HotController == <<"Hot", "Controller">>
NewController == <<"New", "Controller">>

(* the names the listingcontroller module defines *)
listingcontroller == {HotController, NewController, <<"listing", "rules">>}

Classes == {ApiController, ApiminimalController, FrontController, HotController, NewController}

root_dir == <<"/srv", "/r2">>

Fn(cls, name, file, line, text) ==
    [cls |-> cls, name |-> name, co_filename |-> file, co_firstlineno |-> line, func_doc |-> text]

api_GET_foo == Fn(ApiController, <<"GET", "_", "foo">>, <<"/srv", "/r2", "/api.py">>, 10, "foo docs")
api_GET_bar == Fn(ApiController, <<"GET", "_", "bar">>, <<"/srv", "/r2", "/api.py">>, 20, "bar docs")
min_PUT_foo == Fn(ApiminimalController, <<"PUT", "_", "foo">>, <<"/srv", "/r2", "/api.py">>, 30, "put docs")
min_GET_ == Fn(ApiminimalController, <<"GET", "_">>, <<"/srv", "/r2", "/api.py">>, 40, "no action")
front_GET_foo == Fn(FrontController, <<"GET", "_", "foo">>, <<"/srv", "/r2", "/front.py">>, 50, "front foo")
front_foo == Fn(FrontController, <<"foo">>, <<"/srv", "/r2", "/front.py">>, 60, "helper")
hot_GET_foo == Fn(HotController, <<"GET", "_", "foo">>, <<"/opt", "/listing.py">>, 70, "hot foo")
new_GET_foo == Fn(NewController, <<"GET", "_", "foo">>, <<"/opt", "/listing.py">>, 80, "new foo")
new_POST_foo == Fn(NewController, <<"POST", "_", "foo">>, <<"/opt", "/listing.py">>, 90, "new post foo")

Functions ==
    {api_GET_foo, api_GET_bar, min_PUT_foo, min_GET_, front_GET_foo, front_foo,
     hot_GET_foo, new_GET_foo, new_POST_foo}

----------------------------------------------------------------------------
(* the code bases the model follows: which functions the controllers define *)
(* and which api_doc(section, **kwargs) decorator calls they are given      *)

Call(f, section, kwargs) == [func |-> f, section |-> section, kwargs |-> kwargs]

UriX == <<"/x">>
UriY == <<"/y">>
UriV == <<"/v">>
UriApiFoo == <<"/api", "/", "foo">>
UriApiBar == <<"/api", "/", "bar">>

UriChoices == {EmptyDict, [uri |-> <<>>], [uri |-> UriX]}
ExtChoices ==
    {EmptyDict, [extensions |-> <<>>], [extensions |-> <<"json">>],
     [extensions |-> <<"json", "xml">>]}
VariantChoices == {EmptyDict, [uri_variants |-> <<UriV, UriY>>]}

(* several controllers documenting the same URI *)
ListingProgram ==
    [funcs |-> {front_GET_foo, hot_GET_foo, new_GET_foo, new_POST_foo},
     calls |-> {Call(front_GET_foo, "listings", EmptyDict),
                Call(hot_GET_foo, "listings", EmptyDict),
                Call(new_GET_foo, "listings", EmptyDict),
                Call(new_POST_foo, "listings", EmptyDict),
                Call(new_POST_foo, "frontpage", EmptyDict)}]

(* functions the collector leaves out *)
SkippedProgram ==
    [funcs |-> {min_PUT_foo, min_GET_, front_foo, front_GET_foo},
     calls |-> {Call(min_PUT_foo, "account", [uri |-> UriX, uri_variants |-> <<UriV>>]),
                Call(min_GET_, "account", [uri |-> UriY]),
                Call(front_foo, "misc", EmptyDict),
                Call(front_GET_foo, "misc", EmptyDict),
                Call(front_GET_foo, "misc", [extends |-> min_PUT_foo]),
                Call(min_GET_, "account", [extends |-> front_foo])}]

(* one function extending another *)
ExtendsProgram ==
    [funcs |-> {api_GET_foo, api_GET_bar},
     calls |-> {Call(api_GET_foo, "account",
                     [uri |-> UriX, uri_variants |-> <<UriV>>, extensions |-> <<"json">>,
                      parameters |-> [id |-> "id of the thing"]]),
                Call(api_GET_foo, "account", [uri |-> UriY]),
                Call(api_GET_foo, "account", [extensions |-> <<"json", "xml">>]),
                Call(api_GET_bar, "misc", [extends |-> api_GET_foo]),
                Call(api_GET_bar, "misc",
                     [extends |-> api_GET_foo, uri |-> UriV,
                      parameters |-> [name |-> "a name"]]),
                Call(api_GET_bar, "misc", [uri |-> <<>>]),
                Call(api_GET_bar, "misc", [extensions |-> <<>>])}]

(* 'extends' naming a function that has no metadata, and a function extending itself *)
DanglingProgram ==
    [funcs |-> {api_GET_foo, api_GET_bar, hot_GET_foo},
     calls |-> {Call(api_GET_foo, "account", [extends |-> api_GET_bar]),
                Call(api_GET_bar, "account", [extends |-> api_GET_foo, uri |-> UriX]),
                Call(api_GET_bar, "misc", [extensions |-> <<"json">>]),
                Call(api_GET_foo, "account", [extends |-> api_GET_foo]),
                Call(hot_GET_foo, "listings", EmptyDict)}]

(* every combination of uri, extensions and uri_variants on one function *)
FoldProgram ==
    [funcs |-> {api_GET_foo, front_GET_foo},
     calls |-> {Call(api_GET_foo, "account", Update(Update(u, e), v)) :
                    u \in UriChoices, e \in ExtChoices, v \in VariantChoices}
               \cup {Call(front_GET_foo, "misc", [extensions |-> <<"json">>]),
                     Call(front_GET_foo, "misc", [uri_variants |-> <<UriX>>])}]

(* two functions of one controller filed under the same keys *)
CollidingProgram ==
    [funcs |-> {api_GET_foo, api_GET_bar},
     calls |-> {Call(api_GET_foo, "account", [uri_variants |-> <<UriApiBar>>]),
                Call(api_GET_bar, "account", EmptyDict),
                Call(api_GET_bar, "account", [uri |-> UriApiFoo]),
                Call(api_GET_foo, "misc", EmptyDict)}]

Programs ==
    {ListingProgram, SkippedProgram, ExtendsProgram, DanglingProgram, FoldProgram,
     CollidingProgram}

Members(cls) == {f \in program.funcs : f.cls = cls}

Perms(S) ==
    {s \in [1..Cardinality(S) -> S] : \A i, j \in 1..Cardinality(S) : s[i] = s[j] => i = j}

----------------------------------------------------------------------------
(* api_doc(section, **kwargs) applied to api_function *)

(* the decorated function's _api_doc, created empty when it has none *)
DocOf(st, api_function) ==
    IF api_function \in DOMAIN st THEN st ELSE SetItem(st, api_function, EmptyDict)

(* variant: an _api_doc that is still empty is refused as well *)
ExtendsFailsOnEmpty(st, kwargs) ==
    /\ "extends" \in DOMAIN kwargs
    /\ (kwargs["extends"] \notin DOMAIN st \/ DOMAIN st[kwargs["extends"]] = {})

(* kwargs['extends']._api_doc raises AttributeError when that function has no _api_doc *)
ExtendsFails(st, kwargs) ==
    "extends" \in DOMAIN kwargs /\ kwargs["extends"] \notin DOMAIN st

(* A dict held by reference: the _api_doc of a function.  A dict held by value *)
(* (a copy) carries its contents.                                             *)
DictRef(f) == [ref |-> f]
DictCopy(d) == [copy |-> d]
Deref(st, v) == IF "ref" \in DOMAIN v THEN st[v.ref] ELSE v.copy

(* variant: kwargs['extends'] = dict(kwargs['extends']._api_doc), a copy *)
ResolveExtendsCopy(st, kwargs) ==
    IF "extends" \in DOMAIN kwargs
    THEN SetItem(kwargs, "extends", DictCopy(st[kwargs["extends"]]))
    ELSE kwargs

(* kwargs['extends'] = kwargs['extends']._api_doc: the other function's dict itself *)
ResolveExtends(st, kwargs) ==
    IF "extends" \in DOMAIN kwargs
    THEN SetItem(kwargs, "extends", DictRef(kwargs["extends"]))
    ELSE kwargs

(* lines 60-63 *)
UpdateDoc(doc, section, kwargs, api_function) ==
    SetItem(SetItem(SetItem(Update(doc, kwargs), "section", section),
                    "filepath", api_function.co_filename),
            "lineno", api_function.co_firstlineno)

AddTo(st, section, kwargs, api_function) ==
    IF ExtendsFails(st, kwargs)
    THEN [store |-> st, raised |-> "AttributeError"]
    ELSE [store |-> SetItem(st, api_function,
                            UpdateDoc(st[api_function], section,
                                      ResolveExtends(st, kwargs), api_function)),
          raised |-> "none"]

add_metadata(st, section, kwargs, api_function) ==
    AddTo(DocOf(st, api_function), section, kwargs, api_function)

----------------------------------------------------------------------------
(* ApidocsController.docs_from_controller *)

IndexOf(s, t) ==
    LET I == {i \in 1..Len(s) : s[i] = t}
    IN  IF I = {} THEN 0 ELSE CHOOSE i \in I : \A j \in I : i <= j

(* name.partition(sep): the part before the first sep, the sep, the part after it *)
partition(name, sep) ==
    LET i == IndexOf(name, sep)
    IN  IF i = 0 THEN <<name, <<>>, <<>>>>
        ELSE <<SubSeq(name, 1, i - 1), <<sep>>, SubSeq(name, i + 1, Len(name))>>

(* '/'.join((url_prefix, action)) *)
JoinUri(url_prefix, action) == url_prefix \o <<"/">> \o action

StartsWith(s, prefix) == Len(s) >= Len(prefix) /\ SubSeq(s, 1, Len(prefix)) = prefix

relpath(path, start) == SubSeq(path, Len(start) + 1, Len(path))

(* variant: the HTTP method is not looked at *)
IsDocumentedAnyMethod(st, func) ==
    /\ partition(func.name, "_")[3] # <<>>
    /\ func \in DOMAIN st
    /\ DOMAIN st[func] # {}
    /\ "section" \in DOMAIN st[func]

(* variant: a section outside section_info is left out *)
IsDocumentedRegistered(st, func) ==
    /\ partition(func.name, "_")[3] # <<>>
    /\ func \in DOMAIN st
    /\ DOMAIN st[func] # {}
    /\ "section" \in DOMAIN st[func]
    /\ st[func]["section"] \in section_info
    /\ partition(func.name, "_")[1] \in {<<"GET">>, <<"POST">>}

(* 'if api_doc and 'section' in api_doc and method in ('GET', 'POST')', after the *)
(* 'if not action: continue' above it                                            *)
IsDocumented(st, func) ==
    LET p == partition(func.name, "_")
    IN  /\ p[3] # <<>>
        /\ func \in DOMAIN st
        /\ DOMAIN st[func] # {}
        /\ "section" \in DOMAIN st[func]
        /\ p[1] \in {<<"GET">>, <<"POST">>}

(* The dict a local name is bound to: a fresh dict of this call, or a function's *)
(* _api_doc.  env.local is the fresh dict, env.heap the _api_doc dicts.          *)
Load(env, name) == IF name.kind = "local" THEN env.local ELSE env.heap[name.func]

Store(env, name, d) ==
    IF name.kind = "local"
    THEN [env EXCEPT !.local = d]
    ELSE [env EXCEPT !.heap = SetItem(env.heap, name.func, d)]

(* variant: docs = api_doc, the function's own dict *)
SameDocs(func) == [kind |-> "attr", func |-> func]

(* docs = {} *)
NewDocs(func) == [kind |-> "local", func |-> func]

(* api_docs[section][variant][method] = docs *)
IndexPut(idx, section, variant, method, d) ==
    LET bysection == Get(idx, section, EmptyDict)
        byuri == Get(bysection, variant, EmptyDict)
    IN  SetItem(idx, section, SetItem(bysection, variant, SetItem(byuri, method, d)))

(* variant: only the first URI is filed *)
FileCanonicalOnly(idx, section, variants, method, d) ==
    IF variants = <<>> THEN idx ELSE IndexPut(idx, section, Head(variants), method, d)

RECURSIVE FileVariants(_, _, _, _, _)
FileVariants(idx, section, variants, method, d) ==
    IF variants = <<>> THEN idx
    ELSE FileVariants(IndexPut(idx, section, Head(variants), method, d),
                      section, Tail(variants), method, d)

(* variant: the first extension is folded whenever there is one *)
FoldsAnyExtension(d) == "extensions" \in DOMAIN d /\ Len(d["extensions"]) >= 1

(* if only one extension was specified, add it to the URI *)
FoldsExtension(d) == "extensions" \in DOMAIN d /\ Len(d["extensions"]) = 1

(* docs[k] = v, docs.update(e) and del docs[k] on the dict a name is bound to *)
SetKey(env, name, k, v) == Store(env, name, SetItem(Load(env, name), k, v))
UpdateFrom(env, name, e) == Store(env, name, Update(Load(env, name), e))
DelKey(env, name, k) == Store(env, name, DelItem(Load(env, name), k))

(* docs = {}; docs['doc'] = inspect.getdoc(func) *)
StartDocs(env, func) ==
    SetKey([env EXCEPT !.local = EmptyDict], NewDocs(func), "doc", func.func_doc)

(* if 'extends' in api_doc: docs.update(api_doc['extends']); docs['parameters'] = {} *)
InheritDocs(env, func) ==
    IF "extends" \in DOMAIN env.heap[func]
    THEN SetKey(UpdateFrom(env, NewDocs(func), Deref(env.heap, env.heap[func]["extends"])),
                NewDocs(func), "parameters", EmptyDict)
    ELSE env

(* docs.update(api_doc) *)
OwnDocs(env, func) == UpdateFrom(env, NewDocs(func), env.heap[func])

(* uri = docs.get('uri') or '/'.join((url_prefix, action)) *)
BaseUri(d, url_prefix, action) ==
    IF "uri" \in DOMAIN d /\ d["uri"] # <<>> THEN d["uri"] ELSE JoinUri(url_prefix, action)

(* the uri after 'uri += '.' + docs['extensions'][0]' where it applies *)
FullUri(d, url_prefix, action) ==
    IF FoldsExtension(d)
    THEN BaseUri(d, url_prefix, action) \o <<".">> \o <<d["extensions"][1]>>
    ELSE BaseUri(d, url_prefix, action)

(* lines 103-109: del docs['extensions'] when folded, then docs['uri'] = uri *)
FoldUri(env, func, uri) ==
    SetKey(IF FoldsExtension(Load(env, NewDocs(func)))
           THEN DelKey(env, NewDocs(func), "extensions")
           ELSE env,
           NewDocs(func), "uri", uri)

(* lines 113-114 *)
RelFilePath(env, func) ==
    IF StartsWith(Load(env, NewDocs(func))["filepath"], root_dir)
    THEN SetKey(env, NewDocs(func), "relfilepath",
                relpath(Load(env, NewDocs(func))["filepath"], root_dir))
    ELSE env

(* lines 118-119, and the record of the docs dict that was filed *)
FileDocs(env, func, d, method) ==
    [env EXCEPT
        !.api_docs = FileVariants(@, d["section"],
                                  <<d["uri"]>> \o Get(d, "uri_variants", <<>>), method, d),
        !.merged = SetItem(@, func, d)]

FileLoaded(env, func, method) == FileDocs(env, func, Load(env, NewDocs(func)), method)

(* variant: the inherited fields are applied after the function's own *)
ResolveInheritedLast(env, func) == InheritDocs(OwnDocs(StartDocs(env, func), func), func)

ResolveDocs(env, func) == OwnDocs(InheritDocs(StartDocs(env, func), func), func)

FoldResolved(env, func, url_prefix, action) ==
    FoldUri(env, func, FullUri(Load(env, NewDocs(func)), url_prefix, action))

(* the body of the loop for one (name, func) of controller.__dict__ *)
DocumentFunction(env, func, url_prefix) ==
    IF ~IsDocumented(env.heap, func) THEN env
    ELSE FileLoaded(RelFilePath(FoldResolved(ResolveDocs(env, func), func, url_prefix,
                                             partition(func.name, "_")[3]),
                                func),
                    func, partition(func.name, "_")[1])

RECURSIVE DocumentAll(_, _, _)
DocumentAll(env, funcs, url_prefix) ==
    IF funcs = <<>> THEN env
    ELSE DocumentAll(DocumentFunction(env, Head(funcs), url_prefix), Tail(funcs), url_prefix)

(* returns the index of one controller; env carries the _api_doc dicts through *)
docs_from_controller(env, controller, url_prefix) ==
    DocumentAll([env EXCEPT !.api_docs = EmptyDict], dict_order[controller], url_prefix)

----------------------------------------------------------------------------
(* ApidocsController.GET_docs *)

EndsWith(name, suffix) == Len(name) > 0 /\ name[Len(name)] = suffix

SelectControllers(names) == SelectSeq(names, LAMBDA n : EndsWith(n, "Controller"))

Source(controller, url_prefix) == [controller |-> controller, url_prefix |-> url_prefix]

api_controllers ==
    <<Source(ApiController, <<"/api">>), Source(ApiminimalController, <<"/api">>),
      Source(FrontController, <<>>)>>
    \o [i \in 1..Len(SelectControllers(module_order)) |->
            Source(SelectControllers(module_order)[i], <<>>)]

(* for section, contents in ....iteritems(): api_docs[section].update(contents) *)
MergeSections(total, contents) ==
    [s \in DOMAIN total \cup DOMAIN contents |->
        IF s \in DOMAIN contents
        THEN Update(Get(total, s, EmptyDict), contents[s])
        ELSE total[s]]

MergeOne(acc, controller, env) ==
    [env |-> env,
     total |-> MergeSections(acc.total, env.api_docs),
     partials |-> SetItem(acc.partials, controller, env.api_docs)]

RECURSIVE MergeAll(_, _)
MergeAll(acc, sources) ==
    IF sources = <<>> THEN acc
    ELSE MergeAll(MergeOne(acc, Head(sources).controller,
                           docs_from_controller(acc.env, Head(sources).controller,
                                                Head(sources).url_prefix)),
                  Tail(sources))

RunDocs(st) ==
    MergeAll([env |-> [heap |-> st, local |-> EmptyDict, api_docs |-> EmptyDict,
                       merged |-> EmptyDict],
              total |-> EmptyDict, partials |-> EmptyDict],
             api_controllers)

----------------------------------------------------------------------------
(* the state machine *)

Init ==
    /\ program \in Programs
    /\ dict_order \in {o \in [Classes -> UNION {Perms(Members(c)) : c \in Classes}] :
                           \A c \in Classes : o[c] \in Perms(Members(c))}
    /\ module_order \in Perms(listingcontroller)
    /\ _api_doc = EmptyDict
    /\ attached_from = EmptyDict
    /\ raised = "none"
    /\ api_docs = EmptyDict
    /\ partial_docs = EmptyDict
    /\ merged = EmptyDict
    /\ fresh = FALSE
    /\ reran = FALSE
    /\ attaches = 0

(* @api_doc(section, **kwargs) applied to a function of the code base *)
Decorate(call) ==
    /\ attaches < MaxAttach
    /\ \E r \in {add_metadata(_api_doc, call.section, call.kwargs, call.func)} :
           /\ _api_doc' = r.store
           /\ raised' = r.raised
           /\ attached_from' =
                IF r.raised = "none" /\ "extends" \in DOMAIN call.kwargs
                THEN SetItem(attached_from, call.func,
                             [func |-> call.kwargs["extends"],
                              doc |-> DocOf(_api_doc, call.func)[call.kwargs["extends"]]])
                ELSE attached_from
    /\ attaches' = attaches + 1
    /\ api_docs' = EmptyDict
    /\ partial_docs' = EmptyDict
    /\ merged' = EmptyDict
    /\ fresh' = FALSE
    /\ reran' = FALSE
    /\ UNCHANGED <<program, dict_order, module_order>>

(* a request for the documentation page *)
GET_docs ==
    /\ \E r \in {RunDocs(_api_doc)} :
           /\ _api_doc' = r.env.heap
           /\ api_docs' = r.total
           /\ partial_docs' = r.partials
           /\ merged' = r.env.merged
    /\ raised' = "none"
    /\ fresh' = TRUE
    /\ reran' = fresh
    /\ UNCHANGED <<program, dict_order, module_order, attached_from, attaches>>

Next ==
    \/ \E call \in program.calls : Decorate(call)
    \/ GET_docs

Spec == Init /\ [][Next]_vars

----------------------------------------------------------------------------
(* vocabulary of the properties, stated on the state and not on the collector *)

MethodOf(f) == partition(f.name, "_")[1]
ActionOf(f) == partition(f.name, "_")[3]

PrefixOf(cls) == IF cls \in {ApiController, ApiminimalController} THEN <<"/api">> ELSE <<>>

HasMetadata(f) == f \in DOMAIN _api_doc /\ DOMAIN _api_doc[f] # {}

(* the endpoints that take part in the documentation *)
Participates(f) ==
    /\ HasMetadata(f)
    /\ "section" \in DOMAIN _api_doc[f]
    /\ MethodOf(f) \in {<<"GET">>, <<"POST">>}
    /\ ActionOf(f) # <<>>

Extending == {f \in DOMAIN merged : "extends" \in DOMAIN _api_doc[f]}

(* the dict 'extends' of f names, as it is now, and as it was when f was attached *)
LiveParent(f) == _api_doc[attached_from[f].func]
ParentAtAttach(f) == attached_from[f].doc
ParentOrNone(f) == IF "extends" \in DOMAIN _api_doc[f] THEN LiveParent(f) ELSE EmptyDict

(* a field in effect: the endpoint's own if declared, else the parent's; <<>> if neither *)
InEffect(own, parent, k) ==
    IF k \in DOMAIN own THEN <<own[k]>>
    ELSE IF k \in DOMAIN parent THEN <<parent[k]>> ELSE <<>>

CanonicalUri(f, own, parent) ==
    IF InEffect(own, parent, "uri") # <<>> /\ InEffect(own, parent, "uri")[1] # <<>>
    THEN InEffect(own, parent, "uri")[1]
    ELSE PrefixOf(f.cls) \o <<"/">> \o ActionOf(f)

SingleExtension(own, parent) ==
    /\ InEffect(own, parent, "extensions") # <<>>
    /\ Len(InEffect(own, parent, "extensions")[1]) = 1

FiledUri(f, own, parent) ==
    IF SingleExtension(own, parent)
    THEN CanonicalUri(f, own, parent) \o <<".", InEffect(own, parent, "extensions")[1][1]>>
    ELSE CanonicalUri(f, own, parent)

VariantsInEffect(own, parent) ==
    IF InEffect(own, parent, "uri_variants") = <<>> THEN <<>>
    ELSE InEffect(own, parent, "uri_variants")[1]

Range(seq) == {seq[i] : i \in 1..Len(seq)}

(* the (section, URI, method) triples of an index, and the entry at a triple *)
Triples(idx) ==
    UNION {UNION {{<<sec, u, m>> : m \in DOMAIN idx[sec][u]} : u \in DOMAIN idx[sec]} :
              sec \in DOMAIN idx}
At(idx, t) == idx[t[1]][t[2]][t[3]]

(* the triples under which an index holds an entry that documents f *)
FiledAt(idx, f) ==
    {t \in Triples(idx) : /\ At(idx, t)["lineno"] = f.co_firstlineno
                          /\ At(idx, t)["filepath"] = f.co_filename}

SourceIds == 1..Len(api_controllers)
PartialOf(i) == partial_docs[api_controllers[i].controller]
LastProducer(j, t) ==
    /\ t \in Triples(PartialOf(j))
    /\ \A k \in SourceIds : k > j => t \notin Triples(PartialOf(k))

----------------------------------------------------------------------------
(* C1: whenever two sources of the sequence both produce an entry for the same *)
(* (section, URI, method), the final index holds under that triple the record  *)
(* of the later of the two (the last source that produced the triple).         *)
C1_LaterSourceWins ==
    fresh =>
        \A i, j \in SourceIds :
            \A t \in Triples(PartialOf(i)) \cap Triples(PartialOf(j)) :
                (i < j /\ LastProducer(j, t)) =>
                    /\ t \in Triples(api_docs)
                    /\ At(api_docs, t) = At(PartialOf(j), t)

(* C2: the merge overwrites at the method level only: every triple produced by *)
(* at least one source is in the final index, with the record of the last      *)
(* source that produced that exact triple.                                     *)
C2_MethodLevelMerge ==
    fresh =>
        \A j \in SourceIds :
            \A t \in Triples(PartialOf(j)) :
                LastProducer(j, t) =>
                    /\ t \in Triples(api_docs)
                    /\ At(api_docs, t) = At(PartialOf(j), t)

(* C3 as written: collecting fails with UnknownSectionError exactly when an     *)
(* endpoint with metadata declares a section outside the registry, and no such *)
(* endpoint is filed into the index.                                           *)
C3_Original ==
    fresh =>
        /\ (raised = "UnknownSectionError") <=>
               (\E f \in program.funcs :
                    /\ HasMetadata(f)
                    /\ "section" \in DOMAIN _api_doc[f]
                    /\ _api_doc[f]["section"] \notin section_info)
        /\ DOMAIN api_docs \subseteq section_info

(* C3 as amended: collecting never raises; the registry is not consulted: the  *)
(* sections of the index are exactly the sections declared by the              *)
(* participating endpoints, registered or not.                                 *)
C3_SectionsAsDeclared ==
    fresh =>
        /\ raised = "none"
        /\ DOMAIN api_docs = {_api_doc[f]["section"] : f \in {g \in program.funcs : Participates(g)}}

C3_Witness ==
    /\ fresh
    /\ \E sec \in DOMAIN api_docs : sec \notin section_info
    /\ \E sec \in DOMAIN api_docs : sec \in section_info

(* C4 as written: for B extending A, every field B declares takes B's value in *)
(* the merged record, every field among uri, uri_variants and extensions that  *)
(* B does not declare takes A's value, and the parameters are B's own.         *)
C4_Original ==
    fresh =>
        \A b \in Extending :
            /\ \A k \in DOMAIN _api_doc[b] :
                   k \in DOMAIN merged[b] /\ merged[b][k] = _api_doc[b][k]
            /\ \A k \in {"uri", "uri_variants", "extensions"} :
                   (k \notin DOMAIN _api_doc[b] /\ k \in DOMAIN LiveParent(b)) =>
                       (k \in DOMAIN merged[b] /\ merged[b][k] = LiveParent(b)[k])
            /\ merged[b]["parameters"] = Get(_api_doc[b], "parameters", EmptyDict)

(* C4 as amended: for B extending A, every field B declares other than uri and *)
(* extensions takes B's value; uri_variants not declared by B takes A's value; *)
(* the parameters are B's own, empty if B declares none.  The extensions in    *)
(* effect are B's if B declares them, else A's, and the URI in effect is B's   *)
(* if declared, else A's, replaced by prefix/action when absent or empty; the  *)
(* merged uri is the URI in effect, followed by '.' and the extension when the *)
(* extensions in effect have exactly one entry, in which case the merged       *)
(* record has no extensions; otherwise its extensions are those in effect.     *)
C4_Precedence ==
    fresh =>
        \A b \in Extending :
            /\ \A k \in DOMAIN _api_doc[b] \ {"uri", "extensions"} :
                   k \in DOMAIN merged[b] /\ merged[b][k] = _api_doc[b][k]
            /\ ("uri_variants" \notin DOMAIN _api_doc[b] /\ "uri_variants" \in DOMAIN LiveParent(b)) =>
                   ("uri_variants" \in DOMAIN merged[b]
                    /\ merged[b]["uri_variants"] = LiveParent(b)["uri_variants"])
            /\ merged[b]["parameters"] = Get(_api_doc[b], "parameters", EmptyDict)
            /\ merged[b]["uri"] = FiledUri(b, _api_doc[b], LiveParent(b))
            /\ IF SingleExtension(_api_doc[b], LiveParent(b))
               THEN "extensions" \notin DOMAIN merged[b]
               ELSE InEffect(merged[b], EmptyDict, "extensions")
                        = InEffect(_api_doc[b], LiveParent(b), "extensions")

C4_Witness ==
    /\ fresh
    /\ \E b \in Extending :
           /\ "uri" \in DOMAIN _api_doc[b] /\ "uri" \in DOMAIN LiveParent(b)
           /\ _api_doc[b]["uri"] # LiveParent(b)["uri"]
           /\ "parameters" \in DOMAIN _api_doc[b] /\ "parameters" \in DOMAIN LiveParent(b)
           /\ "uri_variants" \notin DOMAIN _api_doc[b] /\ "uri_variants" \in DOMAIN LiveParent(b)
           /\ _api_doc[b]["section"] # LiveParent(b)["section"]

(* C5: when the extensions in effect (own or inherited) have exactly one entry *)
(* e, the merged uri is the canonical URI followed by '.' and e and the merged *)
(* record has no extensions; with no or several entries the merged uri is the  *)
(* canonical URI and the extensions are unchanged.  Variant URIs are never     *)
(* suffixed: the endpoint is filed under its uri and its variants as declared. *)
C5_ExtensionFolding ==
    fresh =>
        \A f \in DOMAIN merged :
            /\ IF SingleExtension(_api_doc[f], ParentOrNone(f))
               THEN /\ merged[f]["uri"] =
                           CanonicalUri(f, _api_doc[f], ParentOrNone(f))
                               \o <<".">> \o InEffect(_api_doc[f], ParentOrNone(f), "extensions")[1]
                    /\ "extensions" \notin DOMAIN merged[f]
               ELSE /\ merged[f]["uri"] = CanonicalUri(f, _api_doc[f], ParentOrNone(f))
                    /\ InEffect(merged[f], EmptyDict, "extensions")
                           = InEffect(_api_doc[f], ParentOrNone(f), "extensions")
            /\ Get(merged[f], "uri_variants", <<>>) = VariantsInEffect(_api_doc[f], ParentOrNone(f))
            /\ \A t \in FiledAt(partial_docs[f.cls], f) :
                   t[2] \in {merged[f]["uri"]} \cup Range(VariantsInEffect(_api_doc[f], ParentOrNone(f)))

C5_Witness ==
    /\ fresh
    /\ \E f \in DOMAIN merged :
           /\ SingleExtension(_api_doc[f], ParentOrNone(f))
           /\ VariantsInEffect(_api_doc[f], ParentOrNone(f)) # <<>>
    /\ \E f \in DOMAIN merged :
           /\ "extensions" \in DOMAIN merged[f]
           /\ Len(merged[f]["extensions"]) > 1

(* the keys an endpoint is to be filed under, and whether another one claims one of them *)
KeysOf(f) ==
    {<<_api_doc[f]["section"], u, MethodOf(f)>> :
        u \in {FiledUri(f, _api_doc[f], ParentOrNone(f))}
                  \cup Range(VariantsInEffect(_api_doc[f], ParentOrNone(f)))}

CollisionFree(f) ==
    \A g \in program.funcs :
        (g # f /\ g.cls = f.cls /\ Participates(g)) => KeysOf(f) \cap KeysOf(g) = {}

(* C6: a participating endpoint with method m, declared section s, URI c and   *)
(* variants V, whose keys collide with those of no other endpoint of its       *)
(* controller, is filed at [s][c][m] and at [s][v][m] for every v of V, with   *)
(* the same merged record everywhere, and under no other section or URI.       *)
C6_VariantAliasing ==
    fresh =>
        \A f \in program.funcs :
            (Participates(f) /\ CollisionFree(f)) =>
                /\ f \in DOMAIN merged
                /\ \A t \in KeysOf(f) :
                       /\ t \in Triples(partial_docs[f.cls])
                       /\ At(partial_docs[f.cls], t) = merged[f]
                /\ FiledAt(partial_docs[f.cls], f) = KeysOf(f)

C6_Witness ==
    /\ fresh
    /\ \E f \in program.funcs :
           /\ Participates(f) /\ CollisionFree(f)
           /\ Cardinality(KeysOf(f)) >= 2
           /\ \E g \in program.funcs : g # f /\ g.cls = f.cls /\ Participates(g)

(* the endpoints the documentation leaves out *)
Excluded(f) ==
    \/ ~HasMetadata(f)
    \/ MethodOf(f) \notin {<<"GET">>, <<"POST">>}
    \/ ActionOf(f) = <<>>

(* C7: an endpoint with no metadata, or whose method is not GET or POST, or    *)
(* whose name has no action part, contributes no entry to its controller's     *)
(* index nor to the final index, and collecting raises no error.               *)
C7_Exclusion ==
    fresh =>
        /\ raised = "none"
        /\ \A f \in program.funcs :
               Excluded(f) =>
                   /\ f \notin DOMAIN merged
                   /\ FiledAt(partial_docs[f.cls], f) = {}
                   /\ FiledAt(api_docs, f) = {}

C7_Witness ==
    /\ fresh
    /\ HasMetadata(min_PUT_foo)
    /\ HasMetadata(min_GET_)
    /\ HasMetadata(front_foo)
    /\ front_GET_foo \in DOMAIN merged
    /\ "extends" \in DOMAIN _api_doc[front_GET_foo]

(* C8: a run of GET_docs leaves every attached metadata dict as it was, and a  *)
(* second run right after the first builds an index with the same content.     *)
C8_Idempotence ==
    [][fresh' => (_api_doc' = _api_doc /\ (fresh => api_docs' = api_docs))]_vars

C8_Witness ==
    /\ reran
    /\ \E f \in Extending :
           /\ SingleExtension(_api_doc[f], LiveParent(f))
           /\ "parameters" \in DOMAIN LiveParent(f)

(* the fields f inherits come from the given dict *)
InheritsFrom(f, parent) ==
    /\ "uri" \notin DOMAIN _api_doc[f] => merged[f]["uri"] = FiledUri(f, _api_doc[f], parent)
    /\ "uri_variants" \notin DOMAIN _api_doc[f] =>
           InEffect(merged[f], EmptyDict, "uri_variants") = InEffect(EmptyDict, parent, "uri_variants")
    /\ "extensions" \notin DOMAIN _api_doc[f] =>
           IF SingleExtension(EmptyDict, parent)
           THEN /\ "extensions" \notin DOMAIN merged[f]
                /\ merged[f]["uri"] = FiledUri(f, _api_doc[f], parent)
           ELSE InEffect(merged[f], EmptyDict, "extensions") = InEffect(EmptyDict, parent, "extensions")

(* C9 as written: 'extends' is a snapshot taken when B was attached: what B    *)
(* inherits is what A's metadata was at that time, whatever was attached to A  *)
(* afterwards.                                                                 *)
C9_Original ==
    fresh => \A b \in Extending : InheritsFrom(b, ParentAtAttach(b))

(* C9 as amended: 'extends' is a live reference to A's metadata: what B        *)
(* inherits is what A's metadata holds when the documentation is collected,    *)
(* including what was attached to A after B was attached.                      *)
C9_LiveReference ==
    fresh => \A b \in Extending : InheritsFrom(b, LiveParent(b))

C9_Witness ==
    /\ fresh
    /\ \E b \in Extending :
           /\ attached_from[b].func # b
           /\ "uri" \notin DOMAIN _api_doc[b]
           /\ "uri" \in DOMAIN ParentAtAttach(b)
           /\ LiveParent(b)["uri"] # ParentAtAttach(b)["uri"]

Dangling(call) ==
    /\ "extends" \in DOMAIN call.kwargs
    /\ call.kwargs["extends"] \notin DOMAIN _api_doc
    /\ call.kwargs["extends"] # call.func

====
